---------------------------- MODULE Spec2Model ----------------------------
(***************************************************************************)
(* QRVerse input safety validator (utils/validateInputSafety, enhanced    *)
(* variant): a verification model.                                         *)
(*                                                                         *)
(* A JavaScript string is a sequence of character codes (Nat).  The       *)
(* platform functions the validator calls (String.prototype.trim,         *)
(* toLowerCase, decodeURIComponent, RegExp tests, the WHATWG URL parser)   *)
(* are operators that compute what the platform computes on ASCII input;  *)
(* an operation that can throw returns a record with an ok flag.          *)
(***************************************************************************)
EXTENDS Integers, Sequences, FiniteSets, TLC

VARIABLES
  inputType,       \* the arguments of the call
  content,
  isVerifiedUser,
  variant,         \* the content this content was written from, and how
  locals,          \* the local variables decoded, urlObj and extension of the call
  verdict,         \* what the call returned
  app              \* the state of the App component that calls the validator

vars == <<inputType, content, isVerifiedUser, variant, locals, verdict, app>>

-----------------------------------------------------------------------------
(* Characters and string literals                                          *)

\* The printable ASCII characters, code 32 (space) to 126 (~), in order.
Printable ==
  <<" ", "!", "\"", "#", "$", "%", "&", "'", "(", ")", "*", "+", ",", "-", ".", "/",
    "0", "1", "2", "3", "4", "5", "6", "7", "8", "9", ":", ";", "<", "=", ">", "?",
    "@", "A", "B", "C", "D", "E", "F", "G", "H", "I", "J", "K", "L", "M", "N", "O",
    "P", "Q", "R", "S", "T", "U", "V", "W", "X", "Y", "Z", "[", "\\", "]", "^", "_",
    "GRAVE", "a", "b", "c", "d", "e", "f", "g", "h", "i", "j", "k", "l", "m", "n", "o",
    "p", "q", "r", "s", "t", "u", "v", "w", "x", "y", "z", "{", "|", "}", "~">>

\* The code of a printable character.
Chr(c) == 31 + CHOOSE i \in 1..Len(Printable) : Printable[i] = c

\* A string literal, written as a tuple of characters.
Str(t) == [i \in 1..Len(t) |-> Chr(t[i])]

IsUpper(c)  == c >= 65 /\ c <= 90
IsLower(c)  == c >= 97 /\ c <= 122
IsLetter(c) == IsUpper(c) \/ IsLower(c)
IsDigit(c)  == c >= 48 /\ c <= 57
IsAlnum(c)  == IsLetter(c) \/ IsDigit(c)

\* Character.toLowerCase on ASCII.
LowerChar(c) == IF IsUpper(c) THEN c + 32 ELSE c

\* String.prototype.toLowerCase.
toLowerCase(s) == [i \in 1..Len(s) |-> LowerChar(s[i])]

\* WhiteSpace and LineTerminator code points, which trim() removes.
IsWhite(c) ==
  c \in {9, 10, 11, 12, 13, 32, 160, 5760, 8232, 8233, 8239, 8287, 12288, 65279}
  \/ (c >= 8192 /\ c <= 8202)

\* String.prototype.trim.
trim(s) ==
  LET keep == {i \in 1..Len(s) : ~IsWhite(s[i])}
  IN  IF keep = {} THEN <<>>
      ELSE LET lo == CHOOSE i \in keep : \A j \in keep : i <= j
               hi == CHOOSE i \in keep : \A j \in keep : i >= j
           IN  SubSeq(s, lo, hi)

\* s.startsWith(p)
startsWith(s, p) == Len(s) >= Len(p) /\ \A i \in 1..Len(p) : s[i] = p[i]

\* p matches s at position k, ignoring ASCII letter case (RegExp flag i).
MatchesAtI(s, k, p) ==
  k + Len(p) - 1 <= Len(s)
  /\ \A i \in 1..Len(p) : LowerChar(s[k + i - 1]) = LowerChar(p[i])

\* s.split(/[?#]/)[0]: s up to its first ? or #.
SplitQueryFragment(s) ==
  LET cut == {i \in 1..Len(s) : s[i] \in {35, 63}}
  IN  IF cut = {} THEN s
      ELSE SubSeq(s, 1, (CHOOSE i \in cut : \A j \in cut : i <= j) - 1)

-----------------------------------------------------------------------------
(* decodeURIComponent (ECMAScript Decode with an empty reserved set)       *)

HexVal(c) ==
  IF IsDigit(c) THEN c - 48
  ELSE IF c >= 97 /\ c <= 102 THEN c - 87
  ELSE IF c >= 65 /\ c <= 70 THEN c - 55
  ELSE -1

\* The byte that the escape starting at s[k] = '%' denotes, -1 if s[k..k+2]
\* is not '%' and two hexadecimal digits.
ByteAt(s, k) ==
  IF k + 2 <= Len(s) /\ s[k] = 37 /\ HexVal(s[k + 1]) >= 0 /\ HexVal(s[k + 2]) >= 0
  THEN 16 * HexVal(s[k + 1]) + HexVal(s[k + 2])
  ELSE -1

\* The number of octets of the UTF-8 sequence that lead byte b starts, 0 if
\* b starts none (a continuation byte, an overlong lead, a lead above F4).
Utf8Length(b) ==
  IF b >= 194 /\ b <= 223 THEN 2
  ELSE IF b >= 224 /\ b <= 239 THEN 3
  ELSE IF b >= 240 /\ b <= 244 THEN 4
  ELSE 0

\* The code point of the UTF-8 sequence of n escapes at s[k], -1 if the
\* escapes are not a well-formed UTF-8 sequence.
Utf8CodePoint(s, k, n) ==
  LET b(j) == ByteAt(s, k + 3 * j)
      cont(j) == b(j) >= 128 /\ b(j) <= 191
      lo2 == IF b(0) = 224 THEN 160 ELSE IF b(0) = 240 THEN 144 ELSE 128
      hi2 == IF b(0) = 237 THEN 159 ELSE IF b(0) = 244 THEN 143 ELSE 191
  IN  IF ~(b(1) >= lo2 /\ b(1) <= hi2) THEN -1
      ELSE IF n = 2 THEN (b(0) - 192) * 64 + (b(1) - 128)
      ELSE IF ~cont(2) THEN -1
      ELSE IF n = 3 THEN (b(0) - 224) * 4096 + (b(1) - 128) * 64 + (b(2) - 128)
      ELSE IF ~cont(3) THEN -1
      ELSE (b(0) - 240) * 262144 + (b(1) - 128) * 4096 + (b(2) - 128) * 64 + (b(3) - 128)

\* The UTF-16 code units of code point v.
Utf16(v) ==
  IF v < 65536 THEN <<v>>
  ELSE <<55296 + ((v - 65536) \div 1024), 56320 + ((v - 65536) % 1024)>>

URIError == [ok |-> FALSE, val |-> <<>>]

RECURSIVE DecodeFrom(_, _)
\* Decode of s from position k on: [ok |-> TRUE, val |-> the decoded rest], or
\* URIError where the code throws.
DecodeFrom(s, k) ==
  IF k > Len(s) THEN [ok |-> TRUE, val |-> <<>>]
  ELSE IF s[k] # 37
  THEN LET rest == DecodeFrom(s, k + 1)
       IN  IF rest.ok THEN [ok |-> TRUE, val |-> <<s[k]>> \o rest.val] ELSE URIError
  ELSE LET B == ByteAt(s, k)
       IN  IF B < 0 THEN URIError
           ELSE IF B < 128
           THEN LET rest == DecodeFrom(s, k + 3)
                IN  IF rest.ok THEN [ok |-> TRUE, val |-> <<B>> \o rest.val] ELSE URIError
           ELSE LET n == Utf8Length(B)
                    V == IF n = 0 THEN -1 ELSE Utf8CodePoint(s, k, n)
                IN  IF V < 0 THEN URIError
                    ELSE LET rest == DecodeFrom(s, k + 3 * n)
                         IN  IF rest.ok
                             THEN [ok |-> TRUE, val |-> Utf16(V) \o rest.val]
                             ELSE URIError

decodeURIComponent(s) == DecodeFrom(s, 1)

-----------------------------------------------------------------------------
(* validateInputSafety, step 1: normalization                              *)

\* The bound of the decoding loop, for (let i = 0; i < 3; i++).
MaxDecodeRounds == 3

RECURSIVE DecodeLoop(_, _)
\* The decoding loop with n rounds left: a round that throws or changes
\* nothing ends the loop with the value it was given.
DecodeLoop(decoded, n) ==
  IF n = 0 THEN decoded
  ELSE LET once == decodeURIComponent(decoded)
       IN  IF ~once.ok THEN decoded
           ELSE IF once.val = decoded THEN decoded
           ELSE DecodeLoop(once.val, n - 1)

\* RoundsRun without the test once === decoded: a round that changes nothing
\* does not end the loop.
RECURSIVE RoundsRunToBound(_, _)
RoundsRunToBound(decoded, n) ==
  IF n = 0 THEN 0
  ELSE IF ~decodeURIComponent(decoded).ok THEN 1
  ELSE 1 + RoundsRunToBound(decodeURIComponent(decoded).val, n - 1)

\* The number of rounds of the decoding loop that run, with n rounds left.
RECURSIVE RoundsRun(_, _)
RoundsRun(decoded, n) ==
  IF n = 0 THEN 0
  ELSE IF ~decodeURIComponent(decoded).ok THEN 1
  ELSE IF decodeURIComponent(decoded).val = decoded THEN 1
  ELSE 1 + RoundsRun(decodeURIComponent(decoded).val, n - 1)

\* decoded.replace(/\x00/g, "")
StripNul(s) == SelectSeq(s, LAMBDA c : c # 0)

\* Normalize with the first decodeURIComponent call outside try/catch.
NormalizeUncaught(chars) ==
  [ok |-> decodeURIComponent(toLowerCase(trim(chars))).ok,
   val |-> StripNul(DecodeLoop(toLowerCase(trim(chars)), MaxDecodeRounds))]

\* Normalize without the lower-casing of line 21.
NormalizeCaseSensitive(chars) ==
  [ok |-> TRUE, val |-> StripNul(DecodeLoop(trim(chars), MaxDecodeRounds))]

\* Normalize that falls back to the trimmed, lower-cased content when a
\* round of the loop throws.
NormalizeDiscardingRounds(chars) ==
  [ok  |-> TRUE,
   val |-> StripNul(IF decodeURIComponent(DecodeLoop(toLowerCase(trim(chars)),
                                                     MaxDecodeRounds)).ok
                    THEN DecodeLoop(toLowerCase(trim(chars)), MaxDecodeRounds)
                    ELSE toLowerCase(trim(chars)))]

\* Step 1 after the emptiness test: the value of decoded after the loop and
\* the NUL removal.  The loop catches what decodeURIComponent throws, so the
\* step always completes.
Normalize(chars) ==
  [ok |-> TRUE, val |-> StripNul(DecodeLoop(toLowerCase(trim(chars)), MaxDecodeRounds))]

-----------------------------------------------------------------------------
(* new URL(input), without a base: the WHATWG URL parser on ASCII input.   *)
(* The result is [ok, hostname, pathname]; ok is FALSE where the           *)
(* constructor throws a TypeError.  IPv4 and IPv6 literals, IDNA mapping   *)
(* of non-ASCII labels and the drive-letter quirks of file: URLs are left  *)
(* out: no input of the model reaches them.                                *)

InvalidURL == [ok |-> FALSE, hostname |-> <<>>, pathname |-> <<>>]

\* The least index of s holding a character of set S, Len(s) + 1 if none.
FirstIndex(s, S) ==
  LET hit == {i \in 1..Len(s) : s[i] \in S}
  IN  IF hit = {} THEN Len(s) + 1 ELSE CHOOSE i \in hit : \A j \in hit : i <= j

\* s from index k to its end.
From(s, k) == SubSeq(s, k, Len(s))

\* Leading and trailing C0 controls and spaces removed, then every ASCII tab
\* and newline.
StripURLInput(s) ==
  LET keep == {i \in 1..Len(s) : s[i] > 32}
      core == IF keep = {} THEN <<>>
              ELSE SubSeq(s, CHOOSE i \in keep : \A j \in keep : i <= j,
                             CHOOSE i \in keep : \A j \in keep : i >= j)
  IN  SelectSeq(core, LAMBDA c : c \notin {9, 10, 13})

IsSchemeChar(c) == IsAlnum(c) \/ c \in {43, 45, 46}

\* The index of the ':' that ends the scheme of s, 0 if s has no scheme.
SchemeEnd(s) ==
  LET i == FirstIndex(s, {58})
  IN  IF i > 1 /\ i <= Len(s) /\ IsLetter(s[1])
         /\ \A j \in 1..(i - 1) : IsSchemeChar(s[j])
      THEN i ELSE 0

SpecialSchemes ==
  { Str(<<"h","t","t","p">>), Str(<<"h","t","t","p","s">>), Str(<<"f","t","p">>),
    Str(<<"w","s">>), Str(<<"w","s","s">>) }

HexDigitUpper(n) == IF n < 10 THEN 48 + n ELSE 55 + n

\* The path percent-encode set, on ASCII.
InPathEncodeSet(c) == c <= 32 \/ c >= 127 \/ c \in {34, 35, 60, 62, 63, 94, 96, 123, 125}

RECURSIVE EncodePath(_)
EncodePath(s) ==
  IF s = <<>> THEN <<>>
  ELSE (IF InPathEncodeSet(Head(s))
        THEN <<37, HexDigitUpper(Head(s) \div 16), HexDigitUpper(Head(s) % 16)>>
        ELSE <<Head(s)>>) \o EncodePath(Tail(s))

RECURSIVE SplitOn(_, _)
\* s split at every character of seps: one piece more than separators.
SplitOn(s, seps) ==
  LET i == FirstIndex(s, seps)
  IN  IF i > Len(s) THEN <<s>>
      ELSE <<SubSeq(s, 1, i - 1)>> \o SplitOn(From(s, i + 1), seps)

SingleDotSegments == { Str(<<".">>), Str(<<"%","2","e">>) }

DoubleDotSegments ==
  { Str(<<".",".">>), Str(<<".","%","2","e">>), Str(<<"%","2","e",".">>),
    Str(<<"%","2","e","%","2","e">>) }

IsSingleDot(seg) == toLowerCase(seg) \in SingleDotSegments

IsDoubleDot(seg) == toLowerCase(seg) \in DoubleDotSegments

RECURSIVE PathSegments(_, _, _)
\* The path state: the pieces between slashes, from piece i on, appended to
\* path with dot segments resolved.
PathSegments(pieces, i, path) ==
  IF i > Len(pieces) THEN path
  ELSE LET seg  == EncodePath(pieces[i])
           last == i = Len(pieces)
           shortened == IF path = <<>> THEN path ELSE SubSeq(path, 1, Len(path) - 1)
       IN  IF IsDoubleDot(seg)
           THEN PathSegments(pieces, i + 1,
                             IF last THEN Append(shortened, <<>>) ELSE shortened)
           ELSE IF IsSingleDot(seg)
           THEN PathSegments(pieces, i + 1, IF last THEN Append(path, <<>>) ELSE path)
           ELSE PathSegments(pieces, i + 1, Append(path, seg))

RECURSIVE SerializePath(_)
SerializePath(path) ==
  IF path = <<>> THEN <<>> ELSE <<47>> \o Head(path) \o SerializePath(Tail(path))

\* The pathname of a URL with a path list: t is the input from the end of the
\* authority to the query or fragment, seps the characters that separate
\* segments.
ListPathname(t, seps, special) ==
  IF t = <<>> THEN (IF special THEN <<47>> ELSE <<>>)
  ELSE LET body == IF t[1] \in seps THEN From(t, 2) ELSE t
       IN  SerializePath(PathSegments(SplitOn(body, seps), 1, <<>>))

RECURSIVE PercentDecodeBytes(_)
\* The URL standard's percent-decode: an escape becomes its byte, a '%' that
\* starts no escape stays.
PercentDecodeBytes(s) ==
  IF s = <<>> THEN <<>>
  ELSE IF ByteAt(s, 1) >= 0 THEN <<ByteAt(s, 1)>> \o PercentDecodeBytes(From(s, 4))
  ELSE <<Head(s)>> \o PercentDecodeBytes(Tail(s))

\* Forbidden host code points, and forbidden domain code points.
IsForbiddenHost(c) ==
  c \in {0, 9, 10, 13, 32, 35, 47, 58, 60, 62, 63, 64, 91, 92, 93, 94, 124}
IsForbiddenDomain(c) == IsForbiddenHost(c) \/ c <= 31 \/ c = 37 \/ c = 127

\* The host parser on the host part of an authority: [ok, host].
ParseHost(h, special) ==
  IF special
  THEN LET domain == toLowerCase(PercentDecodeBytes(h))
       IN  IF domain = <<>>
              \/ \E i \in 1..Len(domain) :
                    IsForbiddenDomain(domain[i]) \/ domain[i] >= 128
           THEN [ok |-> FALSE, host |-> <<>>]
           ELSE [ok |-> TRUE, host |-> domain]
  ELSE IF \E i \in 1..Len(h) : IsForbiddenHost(h[i]) \/ h[i] >= 128
       THEN [ok |-> FALSE, host |-> <<>>]
       ELSE [ok |-> TRUE, host |-> h]

RECURSIVE PortValue(_, _)
\* The number a run of digits denotes, as far as it matters: a value above
\* 65535 is not counted further.
PortValue(digits, acc) ==
  IF digits = <<>> \/ acc > 65535 THEN acc
  ELSE PortValue(Tail(digits), 10 * acc + (Head(digits) - 48))

\* The greatest index of s holding character c, 0 if none.
LastIndex(s, c) ==
  LET hit == {i \in 1..Len(s) : s[i] = c}
  IN  IF hit = {} THEN 0 ELSE CHOOSE i \in hit : \A j \in hit : i >= j

\* Host and port: the host runs to the first ':', the port is digits only and
\* at most 65535.
ParseHostPort(hostport, colon, special) ==
  IF colon <= Len(hostport) /\ colon = 1 THEN [ok |-> FALSE, host |-> <<>>]
  ELSE IF \E i \in (colon + 1)..Len(hostport) : ~IsDigit(hostport[i])
  THEN [ok |-> FALSE, host |-> <<>>]
  ELSE IF PortValue(From(hostport, colon + 1), 0) > 65535
  THEN [ok |-> FALSE, host |-> <<>>]
  ELSE ParseHost(SubSeq(hostport, 1, colon - 1), special)

\* The authority state: userinfo up to the last '@', then host and port.
ParseAuthority(auth, special) ==
  IF LastIndex(auth, 64) > 0 /\ LastIndex(auth, 64) = Len(auth)
  THEN [ok |-> FALSE, host |-> <<>>]
  ELSE ParseHostPort(From(auth, LastIndex(auth, 64) + 1),
                     FirstIndex(From(auth, LastIndex(auth, 64) + 1), {58}), special)

\* A URL with an authority: host is the parsed authority, tail the input from
\* the end of the authority to the query or fragment.
AuthorityURL(host, tail, seps, special) ==
  IF host.ok
  THEN [ok |-> TRUE, hostname |-> host.host,
        pathname |-> ListPathname(tail, seps, special)]
  ELSE InvalidURL

\* The authority ends at the first slash, '?' or '#'.
ParseFromAuthority(body, seps, special) ==
  AuthorityURL(ParseAuthority(SubSeq(body, 1, FirstIndex(body, seps \cup {35, 63}) - 1),
                              special),
               SplitQueryFragment(From(body, FirstIndex(body, seps \cup {35, 63}))),
               seps, special)

\* s without its leading slashes and backslashes.
SkipSlashes(s) == From(s, FirstIndex(s, {c \in 0..127 : c \notin {47, 92}}))

\* The input after "scheme:".  A special scheme skips every leading slash
\* before its authority; another scheme has an authority after "//", a path
\* list after "/", an opaque path otherwise.
ParseAfterScheme(rest, special) ==
  IF special THEN ParseFromAuthority(SkipSlashes(rest), {47, 92}, TRUE)
  ELSE IF Len(rest) >= 2 /\ rest[1] = 47 /\ rest[2] = 47
  THEN ParseFromAuthority(From(rest, 3), {47}, FALSE)
  ELSE IF rest # <<>> /\ rest[1] = 47
  THEN [ok |-> TRUE, hostname |-> <<>>,
        pathname |-> ListPathname(SplitQueryFragment(rest), {47}, FALSE)]
  ELSE [ok |-> TRUE, hostname |-> <<>>, pathname |-> SplitQueryFragment(rest)]

\* The scheme of s ends at index e (0: s has no scheme, and no base either).
ParseFromScheme(s, e) ==
  IF e = 0 THEN InvalidURL
  ELSE ParseAfterScheme(From(s, e + 1), toLowerCase(SubSeq(s, 1, e - 1)) \in SpecialSchemes)

ParseStripped(s) == ParseFromScheme(s, SchemeEnd(s))

\* new URL(input)
ParseURL(input) == ParseStripped(StripURLInput(input))

-----------------------------------------------------------------------------
(* validateInputSafety(inputType, content, isVerifiedUser)                 *)

\* A JavaScript value passed as content: its typeof, and its characters when
\* it is a string.  A number or an object stands for a truthy non-string.
StringValue(chars) == [kind |-> "string", chars |-> chars]
Undefined    == [kind |-> "undefined", chars |-> <<>>]
Null         == [kind |-> "object-null", chars |-> <<>>]
NumberValue  == [kind |-> "number", chars |-> <<>>]

\* !content
IsFalsy(c) == c.kind \in {"undefined", "object-null"} \/ (c.kind = "string" /\ c.chars = <<>>)

\* IsEmptyContent without the trim() test.
IsEmptyContentNoTrim(c) == IsFalsy(c) \/ c.kind # "string"

\* !content || typeof content !== "string" || !content.trim()
IsEmptyContent(c) ==
  IsFalsy(c) \/ c.kind # "string" \/ trim(c.chars) = <<>>

\* What a call returns: a verdict, or nothing when an exception leaves it.
Verdict(status, reasonCode, text, arg) ==
  [threw |-> FALSE, status |-> status, reasonCode |-> reasonCode,
   message |-> [text |-> text, arg |-> arg]]
Thrown ==
  [threw |-> TRUE, status |-> "none", reasonCode |-> "none",
   message |-> [text |-> "", arg |-> <<>>]]

\* nonUrlTypes with an entry missing.
nonUrlTypesWithoutGeo ==
  {"Text", "Wi-Fi", "Email", "vCard", "Phone", "SMS", "Event", "UPI", "MECARD"}

nonUrlTypes ==
  {"Text", "Wi-Fi", "Email", "vCard", "Phone", "SMS", "Event", "Geo", "UPI", "MECARD"}

unsafeProtocols ==
  { Str(<<"j","a","v","a","s","c","r","i","p","t",":">>), Str(<<"d","a","t","a",":">>),
    Str(<<"f","i","l","e",":">>), Str(<<"v","b","s","c","r","i","p","t",":">>),
    Str(<<"a","b","o","u","t",":">>),
    Str(<<"f","i","l","e","s","y","s","t","e","m",":">>) }

\* riskyProtocols without telnet:.
riskyProtocolsWithoutTelnet ==
  { Str(<<"f","t","p",":">>), Str(<<"s","s","h",":">>), Str(<<"m","m","s",":">>),
    Str(<<"r","t","s","p",":">>), Str(<<"m","a","g","n","e","t",":">>) }

riskyProtocols ==
  { Str(<<"f","t","p",":">>), Str(<<"t","e","l","n","e","t",":">>),
    Str(<<"s","s","h",":">>), Str(<<"m","m","s",":">>), Str(<<"r","t","s","p",":">>),
    Str(<<"m","a","g","n","e","t",":">>) }

\* unsafeProtocolPattern without the i flag.
unsafeProtocolPatternCaseSensitive(decoded) ==
  \E p \in unsafeProtocols : startsWith(decoded, p)

\* /^(javascript:|data:|file:|vbscript:|about:|filesystem:)/i.test(decoded)
unsafeProtocolPattern(decoded) == \E p \in unsafeProtocols : MatchesAtI(decoded, 1, p)

\* /^(ftp:|telnet:|ssh:|mms:|rtsp:|magnet:)/i.test(decoded)
riskyProtocolPattern(decoded) == \E p \in riskyProtocols : MatchesAtI(decoded, 1, p)

\* The string literals "http://", "https://", "ftp://" and "xn--".
HttpPrefix     == Str(<<"h","t","t","p",":","/","/">>)
HttpsPrefix    == Str(<<"h","t","t","p","s",":","/","/">>)
FtpPrefix      == Str(<<"f","t","p",":","/","/">>)
PunycodePrefix == Str(<<"x","n","-","-">>)

\* /^https?:\/\//i.test(decoded) || /^ftp:\/\//i.test(decoded)
isUrlLike(decoded) ==
  \/ MatchesAtI(decoded, 1, HttpPrefix)
  \/ MatchesAtI(decoded, 1, HttpsPrefix)
  \/ MatchesAtI(decoded, 1, FtpPrefix)

\* blockedExtensions without the disk images dmg and img.
blockedExtensionsWithoutImages ==
  { Str(<<"e","x","e">>), Str(<<"m","s","i">>), Str(<<"b","a","t">>), Str(<<"c","m","d">>),
    Str(<<"v","b","s">>), Str(<<"s","c","r">>), Str(<<"d","l","l">>), Str(<<"c","o","m">>),
    Str(<<"j","a","r">>), Str(<<"p","s","1">>), Str(<<"s","h">>), Str(<<"a","p","k">>),
    Str(<<"a","a","b">>), Str(<<"a","p","p">>), Str(<<"p","k","g">>), Str(<<"d","e","b">>),
    Str(<<"r","p","m">>), Str(<<"b","i","n">>), Str(<<"c","r","x">>), Str(<<"x","p","i">>) }

blockedExtensions ==
  { Str(<<"e","x","e">>), Str(<<"m","s","i">>), Str(<<"b","a","t">>), Str(<<"c","m","d">>),
    Str(<<"v","b","s">>), Str(<<"s","c","r">>), Str(<<"d","l","l">>), Str(<<"c","o","m">>),
    Str(<<"j","a","r">>), Str(<<"p","s","1">>), Str(<<"s","h">>), Str(<<"a","p","k">>),
    Str(<<"a","a","b">>), Str(<<"a","p","p">>), Str(<<"d","m","g">>), Str(<<"p","k","g">>),
    Str(<<"d","e","b">>), Str(<<"r","p","m">>), Str(<<"i","m","g">>), Str(<<"b","i","n">>),
    Str(<<"c","r","x">>), Str(<<"x","p","i">>) }

archiveExtensions ==
  { Str(<<"z","i","p">>), Str(<<"r","a","r">>), Str(<<"7","z">>), Str(<<"t","a","r">>),
    Str(<<"t","g","z">>), Str(<<"t","a","r",".","g","z">>), Str(<<"g","z">>),
    Str(<<"b","z","2">>), Str(<<"x","z">>), Str(<<"i","s","o">>) }

macroEnabledDocs ==
  { Str(<<"d","o","c","m">>), Str(<<"x","l","s","m">>), Str(<<"p","p","t","m">>) }

shortenerDomains ==
  { Str(<<"b","i","t",".","l","y">>), Str(<<"t",".","c","o">>),
    Str(<<"t","i","n","y","u","r","l",".","c","o","m">>), Str(<<"g","o","o",".","g","l">>),
    Str(<<"o","w",".","l","y">>), Str(<<"b","u","f","f",".","l","y">>),
    Str(<<"d","l","v","r",".","i","t">>), Str(<<"r","e","b","r","a","n","d",".","l","y">>),
    Str(<<"c","u","t","t",".","l","y">>) }

\* The alternatives of the hidden-executable pattern.
hiddenExecutables ==
  { Str(<<"e","x","e">>), Str(<<"m","s","i">>), Str(<<"b","a","t">>), Str(<<"c","m","d">>),
    Str(<<"v","b","s">>), Str(<<"s","c","r">>), Str(<<"d","l","l">>), Str(<<"j","a","r">>),
    Str(<<"a","p","k">>), Str(<<"p","s","1">>), Str(<<"s","h">>), Str(<<"a","a","b">>) }

\* s.match(/\.([a-z0-9]+)$/i): the capture group, "" when there is no match.
ExtensionMatch(s) ==
  LET dots == {i \in 1..(Len(s) - 1) :
                 s[i] = 46 /\ \A j \in (i + 1)..Len(s) : IsAlnum(s[j])}
  IN  IF dots = {} THEN <<>> ELSE From(s, (CHOOSE i \in dots : TRUE) + 1)

\* ExtensionOf on the whole normalized string, query and fragment included.
ExtensionOfWholeString(urlObj, decoded) == toLowerCase(ExtensionMatch(decoded))

\* Step 5: the extension, from the pathname of urlObj = new URL(decoded), or
\* from the string itself when the constructor throws.
ExtensionOf(urlObj, decoded) ==
  IF urlObj.ok
  THEN toLowerCase(ExtensionMatch(SplitQueryFragment(toLowerCase(urlObj.pathname))))
  ELSE toLowerCase(ExtensionMatch(SplitQueryFragment(decoded)))


\* hiddenExecutablePattern anchored at the end of the string.
hiddenExecutablePatternAtEnd(decoded) ==
  \E i \in 1..Len(decoded) :
    /\ decoded[i] = 46
    /\ \E x \in hiddenExecutables :
         MatchesAtI(decoded, i + 1, x) /\ i + Len(x) = Len(decoded)

\* Step 6: /\.(exe|msi|bat|cmd|vbs|scr|dll|jar|apk|ps1|sh|aab)(?=[^a-z]|$)/i.test(decoded)
hiddenExecutablePattern(decoded) ==
  \E i \in 1..Len(decoded) :
    /\ decoded[i] = 46
    /\ \E x \in hiddenExecutables :
         /\ MatchesAtI(decoded, i + 1, x)
         /\ (i + Len(x) = Len(decoded) \/ ~IsLetter(decoded[i + Len(x) + 1]))

\* No rule of a group of steps returned: the code goes on to the next step.
NoVerdict == Verdict("none", "none", "", <<>>)

\* Step 3: the protocol safety check.
ProtocolVerdict(decoded) ==
  IF unsafeProtocolPattern(decoded)
  THEN Verdict("block", "UNSAFE_PROTOCOL",
               "Blocked - unsafe URL scheme (javascript:, data:, file:, etc.) detected.", <<>>)
  ELSE IF riskyProtocolPattern(decoded)
  THEN Verdict("warn", "RISKY_PROTOCOL",
               "Warning - non-secure protocol detected (ftp, telnet, etc.).", <<>>)
  ELSE NoVerdict

\* ArchiveVerdict that ignores isVerifiedUser.
ArchiveVerdictAlwaysBlock(extension, verified) ==
  Verdict("block", "ARCHIVE",
          "Archive file (.${extension}) links are restricted to verified users for safety.",
          extension)

\* Step 8: the archive verdict.
ArchiveVerdict(extension, verified) ==
  IF ~verified
  THEN Verdict("block", "ARCHIVE",
               "Archive file (.${extension}) links are restricted to verified users for safety.",
               extension)
  ELSE Verdict("warn", "ARCHIVE",
               "Archive link detected (.${extension}). Proceed with caution and share only with trusted users.",
               extension)

\* MacroVerdict that lets a verified user through.
MacroVerdictVerifiedOk(extension, verified) ==
  Verdict(IF verified THEN "ok" ELSE "warn", "MACRO_DOC",
          "Macro-enabled document (.${extension}) detected. These may contain embedded scripts. Verify file before sharing.",
          extension)

\* Step 9: the macro-enabled document verdict.
MacroVerdict(extension, verified) ==
  Verdict("warn", "MACRO_DOC",
          "Macro-enabled document (.${extension}) detected. These may contain embedded scripts. Verify file before sharing.",
          extension)

\* ExtensionRules with the hidden-executable pattern tested after the
\* extension rules.
ExtensionRulesExtensionFirst(decoded, extension, verified) ==
  IF extension \in blockedExtensions
  THEN Verdict("block", "EXECUTABLE",
               "Blocked - executable or installable file type (.${extension}) is not allowed for safety reasons.",
               extension)
  ELSE IF extension \in archiveExtensions THEN ArchiveVerdict(extension, verified)
  ELSE IF extension \in macroEnabledDocs THEN MacroVerdict(extension, verified)
  ELSE IF hiddenExecutablePattern(decoded)
  THEN Verdict("block", "EXECUTABLE_HIDDEN",
               "Blocked - hidden executable signature detected in encoded or obfuscated URL.",
               <<>>)
  ELSE NoVerdict

\* Steps 6 to 9: the hidden-executable pattern, then the extension rules.
ExtensionRules(decoded, extension, verified) ==
  IF hiddenExecutablePattern(decoded)
  THEN Verdict("block", "EXECUTABLE_HIDDEN",
               "Blocked - hidden executable signature detected in encoded or obfuscated URL.",
               <<>>)
  ELSE IF extension \in blockedExtensions
  THEN Verdict("block", "EXECUTABLE",
               "Blocked - executable or installable file type (.${extension}) is not allowed for safety reasons.",
               extension)
  ELSE IF extension \in archiveExtensions THEN ArchiveVerdict(extension, verified)
  ELSE IF extension \in macroEnabledDocs THEN MacroVerdict(extension, verified)
  ELSE NoVerdict

\* DomainRules that lets a shortener link through with its reason code.
DomainRulesShortenerOk(domain) ==
  IF startsWith(domain, PunycodePrefix)
  THEN Verdict("warn", "PUNYCODE_DOMAIN",
               "Caution - this domain uses internationalized (Punycode) characters. Verify that it belongs to a trusted source before sharing or scanning.",
               <<>>)
  ELSE IF domain \in shortenerDomains
  THEN Verdict("ok", "SHORTENER",
               "Shortened URL detected (${domain}). Expand the link before generating a QR code.",
               domain)
  ELSE NoVerdict

\* Step 10 after new URL(decoded) returned: the punycode check, then the
\* shortener check, on domain = urlObj.hostname.toLowerCase().
DomainRules(domain) ==
  IF startsWith(domain, PunycodePrefix)
  THEN Verdict("warn", "PUNYCODE_DOMAIN",
               "Caution - this domain uses internationalized (Punycode) characters. Verify that it belongs to a trusted source before sharing or scanning.",
               <<>>)
  ELSE IF domain \in shortenerDomains
  THEN Verdict("warn", "SHORTENER",
               "Shortened URL detected (${domain}). Expand the link before generating a QR code.",
               domain)
  ELSE NoVerdict

\* DomainOf that treats a string new URL rejects as invalid input.
DomainOfInvalidBlocks(urlObj) ==
  IF ~urlObj.ok
  THEN Verdict("block", "INVALID",
               "Invalid or unrecognized input. Please enter a valid URL or text.", <<>>)
  ELSE DomainRules(toLowerCase(urlObj.hostname))

\* Step 10 inside try/catch: no verdict when new URL(decoded) throws.
DomainOf(urlObj) ==
  IF ~urlObj.ok THEN NoVerdict ELSE DomainRules(toLowerCase(urlObj.hostname))

\* SchemeVerdict without the fallback: what is not plain HTTP is accepted.
SchemeVerdictAcceptsRest(decoded) ==
  IF startsWith(decoded, HttpPrefix)
  THEN Verdict("warn", "HTTP",
               "Warning - non-secure HTTP link detected. Use HTTPS whenever possible.", <<>>)
  ELSE Verdict("ok", "SAFE", "Looks good - this link appears safe for QR generation.", <<>>)

\* Steps 11 to 13: plain HTTP, the default accept, the fallback.
SchemeVerdict(decoded) ==
  IF startsWith(decoded, HttpPrefix)
  THEN Verdict("warn", "HTTP",
               "Warning - non-secure HTTP link detected. Use HTTPS whenever possible.", <<>>)
  ELSE IF isUrlLike(decoded) \/ startsWith(decoded, HttpsPrefix)
  THEN Verdict("ok", "SAFE", "Looks good - this link appears safe for QR generation.", <<>>)
  ELSE Verdict("block", "INVALID",
               "Invalid or unrecognized input. Please enter a valid URL or text.", <<>>)

\* A step that returned decides; otherwise the next step does.
OrElse(v, next) == IF v # NoVerdict THEN v ELSE next

\* UrlVerdict with the plain-HTTP test before the domain checks.
UrlVerdictHttpFirst(decoded, urlObj, extension, verified) ==
  OrElse(ProtocolVerdict(decoded),
         OrElse(ExtensionRules(decoded, extension, verified),
                IF startsWith(decoded, HttpPrefix)
                THEN SchemeVerdict(decoded)
                ELSE OrElse(DomainOf(urlObj), SchemeVerdict(decoded))))

\* Steps 3 to 13 on the normalized string of URL-typed content, with
\* urlObj = new URL(decoded) and the extension of step 5.
UrlVerdict(decoded, urlObj, extension, verified) ==
  OrElse(ProtocolVerdict(decoded),
         OrElse(ExtensionRules(decoded, extension, verified),
                OrElse(DomainOf(urlObj), SchemeVerdict(decoded))))

\* The local variables of a call that returned before step 1.
NoLocals == [decoded |-> <<>>, urlObj |-> InvalidURL, extension |-> <<>>]

\* The locals of a URL-typed call: decoded after step 1, urlObj and extension
\* as steps 5 and 10 compute them.
LocalsOf(decoded, urlObj) ==
  [decoded |-> decoded, urlObj |-> urlObj, extension |-> ExtensionOf(urlObj, decoded)]

\* A finished call: the locals it computed and what it returned.
RunUrl(l, verified) ==
  [locals |-> l, verdict |-> UrlVerdict(l.decoded, l.urlObj, l.extension, verified)]

\* Steps 2 to 13, after normalization completed with decoded.
RunTyped(type, decoded, verified) ==
  IF ~decoded.ok
  THEN [locals |-> NoLocals, verdict |-> Thrown]   \* nothing catches the exception
  ELSE IF type \in nonUrlTypes
  THEN [locals  |-> [NoLocals EXCEPT !.decoded = decoded.val],
        verdict |-> Verdict("ok", "SAFE", "Content type is non-URL and safe.", <<>>)]
  ELSE RunUrl(LocalsOf(decoded.val, ParseURL(decoded.val)), verified)

Run(type, c, verified) ==
  IF IsEmptyContent(c)
  THEN [locals  |-> NoLocals,
        verdict |-> Verdict("block", "EMPTY", "Please enter content to generate a QR code.", <<>>)]
  ELSE RunTyped(type, Normalize(c.chars), verified)

validateInputSafety(type, c, verified) == Run(type, c, verified).verdict

-----------------------------------------------------------------------------
(* The simpler variant of validateInputSafety (part_002): one round of     *)
(* decoding outside any try/catch, the scheme, domain and default rules on *)
(* the trimmed, lower-cased value, the extension from the decoded string,  *)
(* no hidden-executable and no punycode rule.  Its lists, patterns and     *)
(* messages are those of the enhanced variant.                             *)

WwwPrefix == Str(<<"w","w","w",".">>)

\* urlObj.hostname.replace(/^www\./, "")
StripWww(hostname) ==
  IF startsWith(hostname, WwwPrefix) THEN From(hostname, Len(WwwPrefix) + 1) ELSE hostname

\* Step 5: the extension matched on noQuery = decoded.split(/[?#]/)[0].
SimplerExtensionOf(decoded) == toLowerCase(ExtensionMatch(SplitQueryFragment(decoded)))

\* Steps 6 to 8: blocked extension, archive, macro-enabled document.
SimplerExtensionRules(extension, verified) ==
  IF extension \in blockedExtensions
  THEN Verdict("block", "EXECUTABLE",
               "Blocked - executable or installable file type (.${extension}) is not allowed for safety reasons.",
               extension)
  ELSE IF extension \in archiveExtensions THEN ArchiveVerdict(extension, verified)
  ELSE IF extension \in macroEnabledDocs THEN MacroVerdict(extension, verified)
  ELSE NoVerdict

\* Step 9 inside try/catch: the shortener check on the hostname of
\* new URL(value) without a leading "www.".
SimplerDomainOf(urlObj) ==
  IF urlObj.ok /\ StripWww(urlObj.hostname) \in shortenerDomains
  THEN Verdict("warn", "SHORTENER",
               "Shortened URL detected (${domain}). Expand the link before generating a QR code.",
               StripWww(urlObj.hostname))
  ELSE NoVerdict

\* Steps 3 to 12 on URL-typed content: value is the trimmed, lower-cased
\* content, extension that of step 5, urlObj = new URL(value).
SimplerUrlVerdict(value, extension, urlObj, verified) ==
  OrElse(ProtocolVerdict(value),
         OrElse(SimplerExtensionRules(extension, verified),
                OrElse(SimplerDomainOf(urlObj), SchemeVerdict(value))))

\* The call after the emptiness test: decoded is what
\* decodeURIComponent(value) returned or threw.
SimplerTyped(type, value, decoded, verified) ==
  IF ~decoded.ok THEN Thrown       \* the URIError leaves the function
  ELSE IF type \in nonUrlTypes
  THEN Verdict("ok", "SAFE", "Content type is non-URL and safe.", <<>>)
  ELSE SimplerUrlVerdict(value, SimplerExtensionOf(decoded.val), ParseURL(value), verified)

\* validateInputSafety(inputType, content, isVerifiedUser) of part_002.
SimplerValidateInputSafety(type, c, verified) ==
  IF IsEmptyContent(c)
  THEN Verdict("block", "EMPTY", "Please enter content to generate a QR code.", <<>>)
  ELSE SimplerTyped(type, toLowerCase(trim(c.chars)),
                    decodeURIComponent(toLowerCase(trim(c.chars))), verified)

-----------------------------------------------------------------------------
(* The calls checked: every content built from the pieces below.           *)

\* The longest run of path pieces in the content of a URL-typed call, and of
\* a call of another type.
MaxPieces == 2
MaxPiecesOther == 1

SchemePieces ==
  { <<>>,
    Str(<<"h","t","t","p","s",":","/","/">>),
    Str(<<"h","t","t","p",":","/","/">>),
    Str(<<"f","t","p",":","/","/">>),
    Str(<<"j","a","v","a","s","c","r","i","p","t",":">>),
    Str(<<"%","4","a","A","V","A","s","c","r","i","p","t","%","3","a">>),
    Str(<<"m","a","i","l","t","o",":">>) }

HostPieces ==
  { <<>>,
    Str(<<"e","x","a","m","p","l","e",".","c","o","m">>),
    Str(<<"b","i","t",".","l","y">>),
    Str(<<"x","n","-","-","p","1","a","i",".","c","o","m">>) }

PathPieces ==
  { Str(<<"/","f","i","l","e">>), Str(<<".","e","x","e">>),
    Str(<<"%","2","5","2","e","e","x","e">>), Str(<<".","d","m","g">>),
    Str(<<".","z","i","p">>), Str(<<".","d","o","c","m">>), Str(<<"%">>),
    Str(<<"%","0","0">>), Str(<<"?">>), Str(<<" ">>) }

RECURSIVE Concat(_)
Concat(pieces) == IF pieces = <<>> THEN <<>> ELSE Head(pieces) \o Concat(Tail(pieces))

PathRuns(max) == UNION {[1..n -> PathPieces] : n \in 0..max}

\* The content values: missing, not a string, and every string made of a
\* scheme piece, a host piece and a run of at most max path pieces.
Contents(max) ==
  {Undefined, Null, NumberValue}
  \cup {StringValue(s \o h \o Concat(p)) :
          s \in SchemePieces, h \in HostPieces, p \in PathRuns(max)}

\* The values of the input type selector.
InputTypes ==
  {"URL", "Text", "Wi-Fi", "Email", "vCard", "Phone", "SMS", "Event", "Geo", "UPI", "MECARD"}

NotCalled == Verdict("pending", "none", "", <<>>)

\* How content was written from variant.of: as it is, with the case of some
\* letters changed, with the character at position at percent-encoded level
\* times over, or with a NUL put before position at.
Variation(by, at, level) == [by |-> by, at |-> at, level |-> level]

AsIs == Variation("none", 0, 0)

\* No App component: the validator is called on its own.
NoApp == [mounted |-> FALSE]

Init ==
  /\ inputType \in InputTypes
  /\ content \in (IF inputType = "URL" THEN Contents(MaxPieces)
                  ELSE Contents(MaxPiecesOther))
  /\ isVerifiedUser \in BOOLEAN
  /\ variant = [of |-> content, how |-> AsIs]
  /\ app = NoApp
  /\ locals = NoLocals
  /\ verdict = NotCalled

\* The call validateInputSafety(inputType, content, isVerifiedUser) returns.
Validate ==
  /\ app = NoApp
  /\ verdict = NotCalled
  /\ \E run \in {Run(inputType, content, isVerifiedUser)} :
       /\ verdict' = run.verdict
       /\ locals' = run.locals
  /\ UNCHANGED <<inputType, content, isVerifiedUser, variant, app>>

Next == Validate

Spec == Init /\ [][Next]_vars

-----------------------------------------------------------------------------
(* The calls checked for case, percent-encoding and NUL characters: every  *)
(* content written from one of the URLs below by changing the case of      *)
(* letters, by percent-encoding one character or by inserting a NUL.       *)

PlainSchemes ==
  { Str(<<"h","t","t","p","s",":","/","/">>),
    Str(<<"H","t","t","p",":","/","/">>),
    Str(<<"j","a","v","a","s","c","r","i","p","t",":">>),
    Str(<<"t","e","l","n","e","t",":">>),
    Str(<<"f","t","p",":","/","/">>) }

PlainHosts ==
  { Str(<<"e","x","a","m","p","l","e",".","c","o","m">>),
    Str(<<"b","i","t",".","l","y">>),
    Str(<<"a",".","e","x","e",".","i","o">>) }

PlainPaths ==
  { <<>>,
    Str(<<"/","1","0","0","%","/","f","i","l","e",".","e","x","e">>),
    Str(<<"/","a",".","s","h","/","b",".","z","i","p">>),
    Str(<<"/","b",".","d","o","c","m","?","f","=",".","a","p","k">>),
    Str(<<"/","c","#",".","j","a","r">>),
    Str(<<"/","d",".","e","x","e","c">>),
    Str(<<"/","e",".","d","m","g">>),
    Str(<<"/","g","%","2","E","e","x","e">>) }

PlainContents == {s \o h \o p : s \in PlainSchemes, h \in PlainHosts, p \in PlainPaths}

UpperChar(c) == IF IsLower(c) THEN c - 32 ELSE c

toUpperCase(s) == [i \in 1..Len(s) |-> UpperChar(s[i])]

\* s with the case of its letters changed: all lower, all upper, or
\* alternating.
ChangeCase(s, at) ==
  IF at = 0 THEN toLowerCase(s)
  ELSE IF at = 1 THEN toUpperCase(s)
  ELSE [i \in 1..Len(s) |-> IF i % 2 = 0 THEN UpperChar(s[i]) ELSE LowerChar(s[i])]

\* The digits 25 repeated n times.
RECURSIVE Escapes(_)
Escapes(n) == IF n = 0 THEN <<>> ELSE <<50, 53>> \o Escapes(n - 1)

\* The character c percent-encoded level times over: %2E, %252E, %25252E.
EncodedChar(c, level) ==
  <<37>> \o Escapes(level - 1) \o <<HexDigitUpper(c \div 16), HexDigitUpper(c % 16)>>

EncodeAt(s, at, level) ==
  SubSeq(s, 1, at - 1) \o EncodedChar(s[at], level) \o SubSeq(s, at + 1, Len(s))

\* The escape %00.
EscapedNul == Str(<<"%","0","0">>)

\* s with a NUL before position at: the character itself (level 0) or its
\* escape %00 (level 1).
InsertNul(s, at, level) ==
  SubSeq(s, 1, at - 1) \o (IF level = 0 THEN <<0>> ELSE EscapedNul) \o SubSeq(s, at, Len(s))

Vary(s, how) ==
  IF how.by = "case" THEN ChangeCase(s, how.at)
  ELSE IF how.by = "encoding" THEN EncodeAt(s, how.at, how.level)
  ELSE IF how.by = "nul" THEN InsertNul(s, how.at, how.level)
  ELSE s

\* The variations of a URL-typed content, and of a content of another type.
Variations(type, s) ==
  {AsIs} \cup {Variation("case", k, 0) : k \in 0..2}
  \cup (IF type = "URL"
        THEN {Variation("encoding", at, level) :
                at \in 1..Len(s), level \in 1..MaxDecodeRounds}
             \cup {Variation("nul", at, level) : at \in 1..(Len(s) + 1), level \in 0..1}
        ELSE {})

VariantInit ==
  /\ inputType \in InputTypes
  /\ isVerifiedUser \in BOOLEAN
  /\ \E s \in PlainContents :
       \E how \in Variations(inputType, s) :
         /\ variant = [of |-> StringValue(s), how |-> how]
         /\ content = StringValue(Vary(s, how))
  /\ locals = NoLocals
  /\ verdict = NotCalled
  /\ app = NoApp

VariantSpec == VariantInit /\ [][Next]_vars

-----------------------------------------------------------------------------
(* Properties of validateInputSafety                                       *)

Called == verdict # NotCalled

Outcome(v) == <<v.status, v.reasonCode>>

\* content is missing, not a string, or blank after trimming.
Blank ==
  content.kind # "string" \/ \A i \in 1..Len(content.chars) : IsWhite(content.chars[i])

\* The normalized form of the content of the call.
Decoded == locals.decoded

\* A call with URL-typed, non-blank content has returned.
UrlCall == Called /\ inputType = "URL" /\ ~Blank

\* The conditions of the rules on the normalized content.
UnsafeScheme == unsafeProtocolPattern(Decoded)
RiskyScheme  == riskyProtocolPattern(Decoded)
HiddenExecutable == hiddenExecutablePattern(Decoded)
Extension    == locals.extension
Parses       == locals.urlObj.ok
Hostname     == toLowerCase(locals.urlObj.hostname)
Punycode     == Parses /\ startsWith(Hostname, PunycodePrefix)
Shortener    == Parses /\ Hostname \in shortenerDomains
PlainHttp    == startsWith(Decoded, HttpPrefix)
UrlLike      == isUrlLike(Decoded) \/ startsWith(Decoded, HttpsPrefix)

\* No rule before the punycode rule matches.
NoRuleBeforeDomain ==
  /\ ~UnsafeScheme /\ ~RiskyScheme /\ ~HiddenExecutable
  /\ Extension \notin blockedExtensions \cup archiveExtensions \cup macroEnabledDocs

ReasonCodes ==
  {"EMPTY", "UNSAFE_PROTOCOL", "RISKY_PROTOCOL", "EXECUTABLE", "EXECUTABLE_HIDDEN",
   "ARCHIVE", "MACRO_DOC", "PUNYCODE_DOMAIN", "SHORTENER", "HTTP", "SAFE", "INVALID"}

\* C1: the validator is total: every call returns a verdict with a status in
\* {ok, warn, block} and an enumerated reason code, and throws nothing,
\* whatever the input type, the content and isVerifiedUser.
C1_Total ==
  Called => /\ ~verdict.threw
            /\ verdict.status \in {"ok", "warn", "block"}
            /\ verdict.reasonCode \in ReasonCodes

\* A URL-typed call returned for content with a malformed percent-escape that
\* new URL rejects.
C1_Witness ==
  /\ UrlCall
  /\ ~decodeURIComponent(toLowerCase(trim(content.chars))).ok
  /\ ~Parses
  /\ ~verdict.threw

\* The rules in the order of the specification, each with its condition and
\* its outcome.
RuleTable ==
  << <<Blank, <<"block", "EMPTY">> >>,
     <<inputType \in nonUrlTypes, <<"ok", "SAFE">> >>,
     <<UnsafeScheme, <<"block", "UNSAFE_PROTOCOL">> >>,
     <<RiskyScheme, <<"warn", "RISKY_PROTOCOL">> >>,
     <<HiddenExecutable, <<"block", "EXECUTABLE_HIDDEN">> >>,
     <<Extension \in blockedExtensions, <<"block", "EXECUTABLE">> >>,
     <<Extension \in archiveExtensions,
       <<IF isVerifiedUser THEN "warn" ELSE "block", "ARCHIVE">> >>,
     <<Extension \in macroEnabledDocs, <<"warn", "MACRO_DOC">> >>,
     <<Punycode, <<"warn", "PUNYCODE_DOMAIN">> >>,
     <<Shortener, <<"warn", "SHORTENER">> >>,
     <<PlainHttp, <<"warn", "HTTP">> >>,
     <<UrlLike, <<"ok", "SAFE">> >>,
     <<TRUE, <<"block", "INVALID">> >> >>

RECURSIVE FirstFrom(_, _)
\* The outcome of the first rule of table, from rule i on, whose condition
\* holds.
FirstFrom(table, i) == IF table[i][1] THEN table[i][2] ELSE FirstFrom(table, i + 1)

FirstMatch == FirstFrom(RuleTable, 1)

\* C2: first match wins: the status and reason code returned are those of the
\* first rule, in the order emptiness, type bypass, unsafe scheme, risky
\* scheme, hidden executable, blocked extension, archive, macro document,
\* punycode, shortener, plain HTTP, default accept, fallback, whose condition
\* holds on the normalized content.
C2_FirstMatchWins == Called => Outcome(verdict) = FirstMatch

\* A call returned for content on which both the shortener rule and the
\* plain-HTTP rule hold, with the earlier rule's verdict.
C2_Witness ==
  UrlCall /\ NoRuleBeforeDomain /\ Shortener /\ PlainHttp
  /\ Outcome(verdict) = <<"warn", "SHORTENER">>

\* C3 as stated: for every non-URL input type the verdict is ok/SAFE
\* regardless of the content.
C3_NonUrlAlwaysSafe ==
  (Called /\ inputType \in InputTypes \ {"URL"}) => Outcome(verdict) = <<"ok", "SAFE">>

\* C3, amended: for every non-URL input type and every content that is a
\* string and not blank, the verdict is ok/SAFE whatever isVerifiedUser is.
C3_NonUrlSafeUnlessBlank ==
  (Called /\ inputType \in InputTypes \ {"URL"} /\ ~Blank)
    => Outcome(verdict) = <<"ok", "SAFE">>

\* A call of a non-URL type returned ok/SAFE for content that starts with an
\* unsafe scheme.
C3_Witness ==
  /\ Called /\ inputType \in InputTypes \ {"URL"} /\ ~Blank
  /\ UnsafeScheme
  /\ Outcome(verdict) = <<"ok", "SAFE">>

\* C4: content that is missing, not a string or blank after trimming gets
\* block/EMPTY, for every input type and either value of isVerifiedUser.
C4_BlankIsEmpty == (Called /\ Blank) => Outcome(verdict) = <<"block", "EMPTY">>

\* A call of a non-URL type returned for a string of white space only.
C4_Witness ==
  /\ Called /\ inputType # "URL"
  /\ content.kind = "string" /\ content.chars # <<>> /\ Blank
  /\ Outcome(verdict) = <<"block", "EMPTY">>

\* The unsafe schemes the specification lists.
C5_Schemes ==
  { Str(<<"j","a","v","a","s","c","r","i","p","t",":">>), Str(<<"d","a","t","a",":">>),
    Str(<<"f","i","l","e",":">>), Str(<<"v","b","s","c","r","i","p","t",":">>),
    Str(<<"a","b","o","u","t",":">>),
    Str(<<"f","i","l","e","s","y","s","t","e","m",":">>) }

\* C5: URL-typed content whose normalized form starts with an unsafe scheme,
\* in any letter case, gets block/UNSAFE_PROTOCOL whatever isVerifiedUser is.
C5_UnsafeSchemeBlocked ==
  (UrlCall /\ \E p \in C5_Schemes : MatchesAtI(Decoded, 1, p))
    => Outcome(verdict) = <<"block", "UNSAFE_PROTOCOL">>

\* A call returned for a scheme written with percent-escapes, one of which
\* decodes to an upper-case letter.
C5_Witness ==
  /\ UrlCall
  /\ \E i \in 1..Len(content.chars) : content.chars[i] = 37
  /\ Decoded # <<>> /\ IsUpper(Decoded[1])
  /\ Outcome(verdict) = <<"block", "UNSAFE_PROTOCOL">>

\* A string without escapes, white space or upper-case letters.
Clean(s) == \A i \in 1..Len(s) : s[i] # 37 /\ s[i] > 32 /\ ~IsUpper(s[i])

\* C6: a clean https URL whose path ends in a blocked extension, such as
\* https://example.com/installer.exe, gets block/EXECUTABLE.
C6_CleanExecutable ==
  ( /\ UrlCall
    /\ Clean(content.chars)
    /\ startsWith(content.chars, HttpsPrefix)
    /\ Parses
    /\ Extension \in blockedExtensions )
    => Outcome(verdict) = <<"block", "EXECUTABLE">>

\* C7: when the archive rule is the first to match, the verdict is
\* block/ARCHIVE for an unverified user and warn/ARCHIVE for a verified one.
C7_ArchiveByVerification ==
  ( /\ UrlCall
    /\ ~UnsafeScheme /\ ~RiskyScheme /\ ~HiddenExecutable
    /\ Extension \notin blockedExtensions
    /\ Extension \in archiveExtensions )
    => Outcome(verdict) = <<IF isVerifiedUser THEN "warn" ELSE "block", "ARCHIVE">>

\* A verified user's call returned warn/ARCHIVE.
C7_Witness ==
  UrlCall /\ isVerifiedUser /\ Extension \in archiveExtensions
  /\ Outcome(verdict) = <<"warn", "ARCHIVE">>

\* C8: isVerifiedUser matters to the archive rule only: when the reason code
\* is not ARCHIVE, the call with the other value of isVerifiedUser returns the
\* same status and reason code.
C8_VerificationOnlyForArchive ==
  (Called /\ verdict.reasonCode # "ARCHIVE")
    => Outcome(validateInputSafety(inputType, content, ~isVerifiedUser)) = Outcome(verdict)

\* A verified user's call returned warn/MACRO_DOC.
C8_Witness ==
  UrlCall /\ isVerifiedUser /\ Outcome(verdict) = <<"warn", "MACRO_DOC">>

\* C9: the shortener rule precedes the plain-HTTP rule: URL-typed content
\* that no earlier rule matches and whose hostname is an entry of the
\* shortener list gets warn/SHORTENER, for http:// as for https://.
C9_ShortenerBeforeHttp ==
  (UrlCall /\ NoRuleBeforeDomain /\ ~Punycode /\ Shortener)
    => Outcome(verdict) = <<"warn", "SHORTENER">>

\* A call returned warn/SHORTENER for an http:// link.
C9_Witness ==
  UrlCall /\ PlainHttp /\ Shortener /\ Outcome(verdict) = <<"warn", "SHORTENER">>

\* C10: URL-typed content that no earlier rule matches gets
\* warn/PUNYCODE_DOMAIN when its hostname begins with xn--; when it does not
\* parse as a URL, the punycode and shortener checks are skipped and the
\* verdict is that of the plain-HTTP rule and the rules after it.
C10_PunycodeOrSkip ==
  (UrlCall /\ NoRuleBeforeDomain)
    => /\ Punycode => Outcome(verdict) = <<"warn", "PUNYCODE_DOMAIN">>
       /\ ~Parses => Outcome(verdict) =
                       (IF PlainHttp THEN <<"warn", "HTTP">>
                        ELSE IF UrlLike THEN <<"ok", "SAFE">>
                        ELSE <<"block", "INVALID">>)

\* A call returned warn/HTTP for an http:// string that new URL rejects.
C10_Witness ==
  UrlCall /\ NoRuleBeforeDomain /\ ~Parses /\ PlainHttp
  /\ Outcome(verdict) = <<"warn", "HTTP">>

\* A call returned warn/PUNYCODE_DOMAIN.
C10_PunycodeReached ==
  UrlCall /\ NoRuleBeforeDomain /\ Punycode
  /\ Outcome(verdict) = <<"warn", "PUNYCODE_DOMAIN">>

-----------------------------------------------------------------------------
(* The App component (src/src/App.jsx and its earlier copy part_004): the   *)
(* form, the inline validation of handleChange, the debounced effect that  *)
(* validates and asks the backend for the image, and the responses.        *)
(* inputType and isVerifiedUser are the React state of those names;        *)
(* content, locals and verdict are those of the latest validator call.     *)
(* Of the eleven input types the form is modelled for URL and Text.  The   *)
(* states svgString and error of the component, which are written after   *)
(* the image arrived or failed and read by nothing modelled here, and the  *)
(* second fetch that fills svgString, are left out.                        *)

AppInputTypes == {"URL", "Text"}

Fields == {"url", "text"}

\* The form fields rendered for an input type.
FieldsOf(type) ==
  IF type = "URL" THEN {"url"} ELSE {"text"}

\* What the user can type into a field.
FieldValues(field) ==
  IF field = "url"
  THEN { <<>>,
         Str(<<"h","t","t","p",":","/","/","e","x","a","m","p","l","e",".","c","o","m">>),
         Str(<<"j","a","v","a","s","c","r","i","p","t",":","a","l","e","r","t","(","1",")">>) }
  ELSE { <<>>, Str(<<"h","i">>) }

FormStates ==
  {[url |-> u, text |-> t] : u \in FieldValues("url"), t \in FieldValues("text")}

\* buildContent() for the input type and the inputs of a render.
buildContent(type, inputs) ==
  IF type = "URL" THEN inputs.url ELSE inputs.text

\* The most backend requests issued in one behaviour.
MaxRequests == 2

NoMessage == [text |-> "", arg |-> <<>>]

\* setTimeout(..., 400) of the effect, with what its callback closes over.
PendingTimer(type, inputs, verified) ==
  [pending |-> TRUE, inputType |-> type, inputs |-> inputs, isVerifiedUser |-> verified]

\* The record of a validator call made by the component.
CallOf(type, c, verified) ==
  [content |-> StringValue(c), run |-> Run(type, StringValue(c), verified)]

\* No timer is pending.
NoTimer == {}

\* RerunEffect without the cleanup: the timer of the run before stays.
RerunEffectNoCleanup(timers, t) == timers \cup {t}

\* A render changed a dependency of the effect: the cleanup of the run
\* before clears its timer, then the effect sets timer t.
RerunEffect(timers, t) == {t}

\* setValidationStatus(result.status); setValidationMessage(result.message).
SetValidation(a, v) ==
  [a EXCEPT !.validationStatus = v.status, !.validationMessage = v.message]

Mounted(file) ==
  /\ inputType \in AppInputTypes
  /\ isVerifiedUser = FALSE
  /\ content = Undefined
  /\ variant = [of |-> Undefined, how |-> AsIs]
  /\ locals = NoLocals
  /\ verdict = NotCalled
  /\ \E inputs \in FormStates :
       app = [mounted          |-> TRUE,
              file             |-> file,
              inputs           |-> inputs,
              validationStatus |-> "ok",
              validationMessage |-> NoMessage,
              pngDataUrl       |-> Null,
              timers           |-> {PendingTimer(inputType, inputs, FALSE)},
              requests         |-> 0,
              inflight         |-> {}]

\* The validator call of a handler or of the effect returned or threw.
Returned(call) ==
  /\ content' = call.content
  /\ variant' = [of |-> call.content, how |-> AsIs]
  /\ locals' = call.run.locals
  /\ verdict' = call.run.verdict

\* handleChange(field, value), the render and the effect that follow it.
\* App.jsx builds the content from the merged fields, part_004 calls
\* buildContent(), which reads the inputs of the current render.
AfterChange(a, merged, v) ==
  [(IF v.threw THEN a ELSE SetValidation(a, v))
     EXCEPT !.inputs = merged,
            !.timers = RerunEffect(@, PendingTimer(inputType, merged, isVerifiedUser))]

handleChange(field, value) ==
  /\ app.mounted
  /\ \E merged \in {[app.inputs EXCEPT ![field] = value]} :
       \E call \in {CallOf(inputType,
                           buildContent(inputType,
                                        IF app.file = "src/App.jsx" THEN merged
                                        ELSE app.inputs),
                           isVerifiedUser)} :
         /\ app' = AfterChange(app, merged, call.run.verdict)
         /\ Returned(call)
  /\ UNCHANGED <<inputType, isVerifiedUser>>

\* setInputType(e.target.value) of the selector, the render and the effect.
setInputType(type) ==
  /\ app.mounted
  /\ inputType' = type
  /\ app' = [app EXCEPT
               !.timers = RerunEffect(@, PendingTimer(type, app.inputs, isVerifiedUser))]
  /\ UNCHANGED <<content, isVerifiedUser, variant, locals, verdict>>

\* A change of fgColor, bgColor or qrSize: the effect runs again.
Restyle ==
  /\ app.mounted
  /\ app' = [app EXCEPT
               !.timers = RerunEffect(@, PendingTimer(inputType, app.inputs, isVerifiedUser))]
  /\ UNCHANGED <<inputType, content, isVerifiedUser, variant, locals, verdict>>

\* The effect goes on to fetch: the verdict is neither thrown nor block.
Proceeds(v) == ~v.threw /\ v.status # "block"

\* AfterValidation without the return of line 123: a block goes on to fetch.
AfterValidationNoReturn(a, c, v) ==
  [(IF v.threw THEN a ELSE SetValidation(a, v)) EXCEPT
     !.requests = @ + 1,
     !.inflight = @ \cup {[id |-> a.requests + 1, data |-> c]}]

\* The timer callback from the validator call to its first await.
AfterValidation(a, c, v) ==
  IF v.threw
  THEN IF a.file = "src/App.jsx"
       THEN [a EXCEPT !.validationStatus = "block",
                      !.validationMessage = [text |-> "Validation error", arg |-> <<>>],
                      !.pngDataUrl = Null]
       ELSE a
  ELSE IF v.status = "block"
  THEN [SetValidation(a, v) EXCEPT !.pngDataUrl = Null]
  ELSE [SetValidation(a, v) EXCEPT
          !.requests = @ + 1,
          !.inflight = @ \cup {[id |-> a.requests + 1, data |-> c]}]

\* The callback of timer t runs, 400 ms after the effect set it.
TimerFires ==
  /\ app.mounted
  /\ \E t \in app.timers :
       \E c \in {buildContent(t.inputType, t.inputs)} :
         IF trim(c) = <<>>
         THEN /\ app' = [app EXCEPT !.timers = @ \ {t}, !.pngDataUrl = Null]
              /\ UNCHANGED <<content, variant, locals, verdict>>
         ELSE \E call \in {CallOf(t.inputType, c, t.isVerifiedUser)} :
                /\ Proceeds(call.run.verdict) => app.requests < MaxRequests
                /\ app' = [AfterValidation(app, c, call.run.verdict)
                             EXCEPT !.timers = @ \ {t}]
                /\ Returned(call)
  /\ UNCHANGED <<inputType, isVerifiedUser>>

\* The response to fetch(/generate?...) arrives and the image is shown, or
\* the fetch fails and the catch block runs.
Respond(r, ok) ==
  /\ app.mounted
  /\ r \in app.inflight
  /\ app' = IF ok
            THEN [app EXCEPT !.pngDataUrl = [id |-> r.id, data |-> r.data],
                             !.inflight = @ \ {r}]
            ELSE [app EXCEPT !.inflight = @ \ {r}]
  /\ UNCHANGED <<inputType, content, isVerifiedUser, variant, locals, verdict>>

AppNext ==
  \/ \E field \in FieldsOf(inputType) : \E value \in FieldValues(field) :
       handleChange(field, value)
  \/ \E type \in AppInputTypes : setInputType(type)
  \/ Restyle
  \/ TimerFires
  \/ \E r \in app.inflight : \E ok \in BOOLEAN : Respond(r, ok)

\* The component of src/src/App.jsx, and the one of part_004.
AppInit == Mounted("src/App.jsx")

AppSpec == AppInit /\ [][AppNext]_vars

EarlierAppInit == Mounted("part_004")

EarlierAppSpec == EarlierAppInit /\ [][AppNext]_vars

-----------------------------------------------------------------------------
(* Properties of validateInputSafety under changes of case and encoding    *)

\* What the call returns for the content this content was written from.
PlainOutcome == Outcome(validateInputSafety(inputType, variant.of, isVerifiedUser))

CaseChanged == Called /\ variant.how.by = "case"

\* C11: letter case is ignored: a content and any content that differs from
\* it only in the case of letters get the same status and reason code, for
\* every input type and either value of isVerifiedUser.
C11_CaseIgnored == CaseChanged => Outcome(verdict) = PlainOutcome

\* An upper-case shortener URL got warn/SHORTENER, as its original did.
C11_Witness ==
  /\ CaseChanged /\ inputType = "URL"
  /\ content.chars = toUpperCase(variant.of.chars)
  /\ content # variant.of
  /\ Outcome(verdict) = <<"warn", "SHORTENER">>

\* The extension tokens of the hidden-executable rule.
C14_Tokens ==
  { Str(<<"e","x","e">>), Str(<<"m","s","i">>), Str(<<"b","a","t">>), Str(<<"c","m","d">>),
    Str(<<"v","b","s">>), Str(<<"s","c","r">>), Str(<<"d","l","l">>), Str(<<"j","a","r">>),
    Str(<<"a","p","k">>), Str(<<"p","s","1">>), Str(<<"s","h">>), Str(<<"a","a","b">>) }

\* At position i of s: a dot, a token, then a non-letter or the end of s.
DangerousTokenAt(s, i) ==
  /\ s[i] = 46
  /\ \E x \in C14_Tokens :
       /\ MatchesAtI(s, i + 1, x)
       /\ (i + Len(x) = Len(s) \/ ~IsLetter(s[i + Len(x) + 1]))

\* C14: URL-typed content that passes the scheme rules and whose normalized
\* form has, anywhere, a dot followed by a dangerous token and then a
\* non-letter or the end gets block/EXECUTABLE_HIDDEN, whatever the
\* extracted extension is.
C14_HiddenExecutableAnywhere ==
  ( /\ UrlCall /\ ~UnsafeScheme /\ ~RiskyScheme
    /\ \E i \in 1..Len(Decoded) : DangerousTokenAt(Decoded, i) )
    => Outcome(verdict) = <<"block", "EXECUTABLE_HIDDEN">>

\* The token is not at the end and the extracted extension is that of an
\* archive or a macro document.
C14_Witness ==
  /\ UrlCall
  /\ Extension \in archiveExtensions \cup macroEnabledDocs
  /\ \E i \in 1..Len(Decoded) : DangerousTokenAt(Decoded, i)
  /\ Outcome(verdict) = <<"block", "EXECUTABLE_HIDDEN">>

\* Extensions of the blocked set that the claim names.
C15_Extensions ==
  { Str(<<"e","x","e">>), Str(<<"m","s","i">>), Str(<<"a","p","k">>),
    Str(<<"d","m","g">>), Str(<<"p","k","g">>) }

\* The risky schemes the specification lists.
C17_Schemes ==
  { Str(<<"f","t","p",":">>), Str(<<"t","e","l","n","e","t",":">>),
    Str(<<"s","s","h",":">>), Str(<<"m","m","s",":">>), Str(<<"r","t","s","p",":">>),
    Str(<<"m","a","g","n","e","t",":">>) }

StartsUnsafe == \E p \in C5_Schemes : MatchesAtI(Decoded, 1, p)
StartsRisky  == \E p \in C17_Schemes : MatchesAtI(Decoded, 1, p)

\* C15 as stated: URL-typed content whose path ends in a blocked extension
\* gets status block whatever the scheme and whatever isVerifiedUser is.
C15_ExecutableAlwaysBlocked ==
  (UrlCall /\ Extension \in C15_Extensions) => verdict.status = "block"

\* C15, amended: such content gets status block unless it starts with a
\* risky scheme, and then it gets warn/RISKY_PROTOCOL.
C15_ExecutableBlockedUnlessRisky ==
  (UrlCall /\ Extension \in C15_Extensions)
    => IF StartsRisky /\ ~StartsUnsafe
       THEN Outcome(verdict) = <<"warn", "RISKY_PROTOCOL">>
       ELSE verdict.status = "block"

\* A verified user's https link to a disk image was blocked as EXECUTABLE.
C15_Witness ==
  /\ UrlCall /\ isVerifiedUser /\ Parses /\ Extension \in C15_Extensions
  /\ startsWith(Decoded, HttpsPrefix)
  /\ Outcome(verdict) = <<"block", "EXECUTABLE">>

\* An ftp link to a disk image got warn/RISKY_PROTOCOL.
C15_RiskyReached ==
  /\ UrlCall /\ Parses /\ Extension \in C15_Extensions /\ StartsRisky
  /\ Outcome(verdict) = <<"warn", "RISKY_PROTOCOL">>

\* No rule before the plain-HTTP rule matches.
NoRuleBeforeHttp == NoRuleBeforeDomain /\ ~Punycode /\ ~Shortener

\* C16: URL-typed content that no earlier rule matches and whose normalized
\* form starts with http:// in any letter case gets warn/HTTP.
C16_HttpAnyCase ==
  (UrlCall /\ NoRuleBeforeHttp /\ MatchesAtI(Decoded, 1, HttpPrefix))
    => Outcome(verdict) = <<"warn", "HTTP">>

\* C17: URL-typed content whose normalized form starts with a risky scheme
\* and not with an unsafe one gets warn/RISKY_PROTOCOL whatever follows.
C17_RiskySchemeWarns ==
  (UrlCall /\ StartsRisky /\ ~StartsUnsafe)
    => Outcome(verdict) = <<"warn", "RISKY_PROTOCOL">>

\* A telnet: link that names an executable got warn/RISKY_PROTOCOL.
C17_Witness ==
  /\ UrlCall
  /\ MatchesAtI(Decoded, 1, Str(<<"t","e","l","n","e","t",":">>))
  /\ \E i \in 1..Len(Decoded) : DangerousTokenAt(Decoded, i)
  /\ Outcome(verdict) = <<"warn", "RISKY_PROTOCOL">>

IsHexDigit(c) == IsDigit(c) \/ c \in 65..70 \/ c \in 97..102

\* Every % of s begins an escape of two hexadecimal digits.
WellFormedEscapes(s) ==
  \A i \in 1..Len(s) :
    s[i] = 37 => (i + 2 <= Len(s) /\ IsHexDigit(s[i + 1]) /\ IsHexDigit(s[i + 2]))

Encoded == Called /\ inputType = "URL" /\ variant.how.by = "encoding"

\* C18: URL-typed content without malformed escapes and the same content
\* with one character percent-encoded one, two or three times over get the
\* same status and reason code.
C18_EncodingPreservesVerdict ==
  (Encoded /\ WellFormedEscapes(variant.of.chars)) => Outcome(verdict) = PlainOutcome

\* The content this content was written from is blocked for its scheme or
\* for an executable extension.
PlainBlocked ==
  PlainOutcome \in {<<"block", "UNSAFE_PROTOCOL">>, <<"block", "EXECUTABLE">>,
                    <<"block", "EXECUTABLE_HIDDEN">>}

\* C19: a blocked URL-typed content stays blocked when one of its characters
\* is percent-encoded up to three times over, also when the content has a
\* malformed escape elsewhere.
C19_MalformedCannotDowngrade == (Encoded /\ PlainBlocked) => verdict.status = "block"

\* The trimmed, lower-cased content, before the decoding loop.
Trimmed == toLowerCase(trim(content.chars))

\* A round among the next n fails on s or on what the rounds before it made
\* of s.
RECURSIVE RoundFails(_, _)
RoundFails(s, n) ==
  /\ n > 0
  /\ \/ ~decodeURIComponent(s).ok
     \/ RoundFails(decodeURIComponent(s).val, n - 1)

\* The value of the last round before the first of the next n that fails.
RECURSIVE LastGoodRound(_, _)
LastGoodRound(s, n) ==
  IF n = 0 \/ ~decodeURIComponent(s).ok THEN s
  ELSE LastGoodRound(decodeURIComponent(s).val, n - 1)

\* C20: when a decoding round fails, the call still returns a verdict: the
\* value of the last successful round (the trimmed, lower-cased content when
\* the first round fails) is kept, and the rules are applied to it.
C20_MalformedEscapeKeepsLastRound ==
  (Called /\ ~Blank /\ RoundFails(Trimmed, MaxDecodeRounds))
    => /\ ~verdict.threw
       /\ verdict.status \in {"ok", "warn", "block"}
       /\ Decoded = StripNul(LastGoodRound(Trimmed, MaxDecodeRounds))
       /\ Outcome(verdict) = FirstMatch

\* The first round succeeded, the second failed, and the executable that the
\* string names was blocked.
C20_Witness ==
  /\ UrlCall
  /\ decodeURIComponent(Trimmed).ok
  /\ ~decodeURIComponent(decodeURIComponent(Trimmed).val).ok
  /\ Decoded = decodeURIComponent(Trimmed).val
  /\ Outcome(verdict) = <<"block", "EXECUTABLE_HIDDEN">>

NulInserted == Called /\ inputType = "URL" /\ variant.how.by = "nul"

\* C21: URL-typed content with a NUL character, raw or written %00, gets the
\* status and reason code of the content without it.
C21_NulIgnored == NulInserted => Outcome(verdict) = PlainOutcome

\* The trailing .<alnum>+ of s without its dot, lower-cased; empty when s
\* does not end in one.
TrailingSuffix(s) ==
  IF LastIndex(s, 46) > 0 /\ LastIndex(s, 46) < Len(s)
     /\ \A j \in (LastIndex(s, 46) + 1)..Len(s) : IsAlnum(s[j])
  THEN toLowerCase(From(s, LastIndex(s, 46) + 1))
  ELSE <<>>

\* The path of the normalized content: the path component when it parses as
\* an absolute URL, the string up to its first ? or # when it does not.
PathPart ==
  IF Parses THEN locals.urlObj.pathname
  ELSE SubSeq(Decoded, 1, FirstIndex(Decoded, {35, 63}) - 1)

HasQueryOrFragment == \E i \in 1..Len(Decoded) : Decoded[i] \in {35, 63}

\* C22: the extension is the trailing .<alnum>+ of the path, empty when
\* there is none, and the extension rules fire on it alone: a verdict
\* EXECUTABLE, ARCHIVE or MACRO_DOC means the path ends in an extension of
\* that list, whatever the query string or the fragment holds.
C22_ExtensionFromPathOnly ==
  (UrlCall /\ ~UnsafeScheme /\ ~RiskyScheme)
    => /\ Extension = TrailingSuffix(PathPart)
       /\ verdict.reasonCode = "EXECUTABLE" => TrailingSuffix(PathPart) \in blockedExtensions
       /\ verdict.reasonCode = "ARCHIVE" => TrailingSuffix(PathPart) \in archiveExtensions
       /\ verdict.reasonCode = "MACRO_DOC" => TrailingSuffix(PathPart) \in macroEnabledDocs

\* An https link with an archive extension in its query string only was
\* accepted.
C22_Witness ==
  /\ UrlCall /\ Parses /\ HasQueryOrFragment
  /\ TrailingSuffix(Decoded) \in archiveExtensions
  /\ Extension = <<>>
  /\ Outcome(verdict) = <<"ok", "SAFE">>

\* A string that does not parse, with an archive extension after its ? only,
\* had no extension.
C22_FallbackReached ==
  /\ UrlCall /\ ~Parses /\ HasQueryOrFragment
  /\ TrailingSuffix(Decoded) \in archiveExtensions
  /\ Extension = <<>>
  /\ verdict.reasonCode \notin {"EXECUTABLE", "ARCHIVE", "MACRO_DOC"}

\* None of the rules before the default accept matches, the scheme of the
\* plain-HTTP rule read in any letter case.
NoRuleBeforeDefault == NoRuleBeforeHttp /\ ~MatchesAtI(Decoded, 1, HttpPrefix)

\* The normalized content starts with http://, https:// or ftp://.
LooksLikeUrl ==
  \E p \in {HttpPrefix, HttpsPrefix, FtpPrefix} : MatchesAtI(Decoded, 1, p)

\* C23: URL-typed content that none of the rules up to plain HTTP matches
\* gets ok/SAFE when its normalized form starts with https:// and
\* block/INVALID otherwise; content that is not URL-like is never ok.
C23_DefaultAcceptOrInvalid ==
  UrlCall =>
    /\ NoRuleBeforeDefault =>
          Outcome(verdict) = (IF MatchesAtI(Decoded, 1, HttpsPrefix)
                              THEN <<"ok", "SAFE">> ELSE <<"block", "INVALID">>)
    /\ ~LooksLikeUrl => verdict.status # "ok"

\* A mailto: link that no earlier rule matches got block/INVALID.
C23_Witness ==
  /\ UrlCall /\ NoRuleBeforeDefault
  /\ MatchesAtI(Decoded, 1, Str(<<"m","a","i","l","t","o",":">>))
  /\ Outcome(verdict) = <<"block", "INVALID">>

\* An https link that no earlier rule matches got ok/SAFE.
C23_AcceptReached ==
  /\ UrlCall /\ NoRuleBeforeDefault /\ Parses
  /\ Outcome(verdict) = <<"ok", "SAFE">>

\* decodeURIComponent returns s as it is.
FullyDecoded(s) == decodeURIComponent(s).ok /\ decodeURIComponent(s).val = s

\* C24 as stated: normalization is idempotent: normalizing the normalized
\* content again returns it unchanged.
C24_NormalizationIdempotent ==
  (Called /\ ~Blank) => Normalize(Decoded).val = Decoded

\* C24, amended: the decoding loop leaves a fully decoded value unchanged and
\* ends in its first round; normalizing the normalized content again returns
\* it unchanged exactly when it is trimmed, in lower case and either fully
\* decoded or not decodable.
C24_IdempotentWhenFullyDecoded ==
  (Called /\ ~Blank) =>
    /\ FullyDecoded(Decoded) =>
          /\ DecodeLoop(Decoded, MaxDecodeRounds) = Decoded
          /\ RoundsRun(Decoded, MaxDecodeRounds) = 1
    /\ Normalize(Decoded).val = Decoded
         <=> /\ toLowerCase(trim(Decoded)) = Decoded
             /\ (FullyDecoded(Decoded) \/ ~decodeURIComponent(Decoded).ok)

\* An encoded content was decoded in full, and normalizing the result again
\* changes nothing.
C24_Witness ==
  /\ UrlCall /\ variant.how.by = "encoding"
  /\ Decoded # Trimmed
  /\ FullyDecoded(Decoded)
  /\ RoundsRun(Decoded, MaxDecodeRounds) = 1
  /\ Normalize(Decoded).val = Decoded

\* The normalized content still holds an escape: the loop stopped at its
\* bound.
C24_BoundReached ==
  /\ UrlCall
  /\ RoundsRun(Trimmed, MaxDecodeRounds) = MaxDecodeRounds
  /\ decodeURIComponent(Decoded).ok /\ ~FullyDecoded(Decoded)

\* The statuses a reason code comes with.
StatusesOf(reasonCode) ==
  IF reasonCode \in {"EMPTY", "UNSAFE_PROTOCOL", "EXECUTABLE", "EXECUTABLE_HIDDEN", "INVALID"}
  THEN {"block"}
  ELSE IF reasonCode \in {"RISKY_PROTOCOL", "MACRO_DOC", "PUNYCODE_DOMAIN", "SHORTENER", "HTTP"}
  THEN {"warn"}
  ELSE IF reasonCode = "SAFE" THEN {"ok"}
  ELSE IF reasonCode = "ARCHIVE" THEN {"block", "warn"}
  ELSE {}

\* C25: reason code and status are paired consistently: EMPTY,
\* UNSAFE_PROTOCOL, EXECUTABLE, EXECUTABLE_HIDDEN and INVALID come with block,
\* RISKY_PROTOCOL, MACRO_DOC, PUNYCODE_DOMAIN, SHORTENER and HTTP with warn,
\* SAFE with ok, ARCHIVE with block or warn; ok comes with SAFE only.
C25_ReasonMatchesStatus ==
  Called => /\ verdict.status \in StatusesOf(verdict.reasonCode)
            /\ verdict.status = "ok" => verdict.reasonCode = "SAFE"

\* A verified user's archive link got warn/ARCHIVE.
C25_Witness ==
  /\ UrlCall /\ isVerifiedUser /\ Extension \in archiveExtensions
  /\ verdict.reasonCode = "ARCHIVE" /\ verdict.status = "warn"
  /\ verdict.status \in StatusesOf(verdict.reasonCode)

\* What the simpler variant does on the input of the call.
Simpler == SimplerValidateInputSafety(inputType, content, isVerifiedUser)

\* ok < warn < block
Severity(status) == IF status = "ok" THEN 0 ELSE IF status = "warn" THEN 1 ELSE 2

\* C26: the enhanced variant is at least as severe as the simpler one: when
\* the simpler variant returns a verdict for the input of a call, the status
\* of the enhanced verdict is not below its status (ok < warn < block).
C26_EnhancedAtLeastAsSevere ==
  (Called /\ ~Simpler.threw /\ ~verdict.threw)
    => Severity(verdict.status) >= Severity(Simpler.status)

\* C27: the simpler variant is total: for every input type and every
\* content that is not blank it returns a verdict and does not throw.
C27_SimplerTotal ==
  (Called /\ ~Blank)
    => /\ ~Simpler.threw
       /\ Simpler.status \in {"ok", "warn", "block"}

-----------------------------------------------------------------------------
(* Properties of the App component                                         *)

\* The content of the form in this state and in the next.
FormContent     == buildContent(inputType, app.inputs)
NextFormContent == buildContent(inputType', app'.inputs)

\* This step is the timer callback, this step calls the validator in it, and
\* this step issues a backend request.
EffectRuns   == app'.timers # app.timers /\ app'.timers \subseteq app.timers
EffectCalls  == EffectRuns /\ trim(FormContent) # <<>>
IssuesRequest == app'.requests # app.requests

\* C12: in the debounced effect block is terminal: when the validator
\* returns block for the current content, the step issues no backend
\* request, sets the validation status and message from the verdict and
\* sets pngDataUrl to null; a request is issued only by an effect whose
\* verdict is warn or ok, and for the content validated.
C12_BlockIsTerminal ==
  [][ /\ EffectCalls =>
           /\ verdict' = validateInputSafety(inputType, StringValue(FormContent),
                                             isVerifiedUser)
           /\ verdict'.status = "block" =>
                /\ ~IssuesRequest /\ app'.inflight = app.inflight
                /\ app'.validationStatus = "block"
                /\ app'.validationMessage = verdict'.message
                /\ app'.pngDataUrl = Null
      /\ IssuesRequest =>
           /\ EffectCalls
           /\ verdict'.status \in {"warn", "ok"}
           /\ app'.validationStatus = verdict'.status
           /\ app'.inflight \ app.inflight = {[id |-> app'.requests, data |-> FormContent]}
    ]_vars

\* The effect ran on blocked content after it had requested an image for
\* another content: the block is shown, no image is, no request was added.
C12_Witness ==
  /\ app.mounted /\ app.timers = NoTimer
  /\ content = StringValue(FormContent)
  /\ verdict.status = "block" /\ verdict.reasonCode = "UNSAFE_PROTOCOL"
  /\ app.validationStatus = "block" /\ app.validationMessage = verdict.message
  /\ app.pngDataUrl = Null
  /\ app.requests = 1 /\ app.inflight = {}

\* C13: after handleChange(field, value) the validation status and message
\* are those of validateInputSafety on the content built from the updated
\* fields, with the current inputType and isVerifiedUser.
C13_InlineVerdictOfUpdatedForm ==
  [][ app'.inputs # app.inputs =>
        /\ app'.validationStatus =
             validateInputSafety(inputType', StringValue(NextFormContent),
                                 isVerifiedUser').status
        /\ app'.validationMessage =
             validateInputSafety(inputType', StringValue(NextFormContent),
                                 isVerifiedUser').message
    ]_vars

\* C28: whenever the validation status shown is block, pngDataUrl is null:
\* no image can be shown or downloaded.
C28_BlockedShowsNoImage ==
  (app.mounted /\ app.validationStatus = "block") => app.pngDataUrl = Null

\* This step shows a new image.
ShowsImage == app'.pngDataUrl # app.pngDataUrl /\ app'.pngDataUrl # Null

\* C29: the preview reflects the latest content: an image that is shown
\* answers the newest request, so a slower response to an older request
\* never replaces a newer result, and once the effect has run on the current
\* form the image shown is that of its content, never one from before a
\* block or a blank content.
C29_PreviewReflectsLatest ==
  [][ (app.mounted /\ ShowsImage) =>
        /\ app'.pngDataUrl.id = app.requests
        /\ app.timers = NoTimer =>
              /\ app'.pngDataUrl.data = FormContent
              /\ trim(FormContent) # <<>>
              /\ app.validationStatus # "block"
    ]_vars

\* The timer that the effect sets for the form of the next state.
NextTimer == PendingTimer(inputType', app'.inputs, isVerifiedUser')

\* C30: validation and generation are debounced: a change of the inputs, of
\* the input type or of the verification flag leaves exactly the timer set
\* for the changed form pending, at most one timer is pending at any time,
\* and a request is issued only by the timer set for the form as it still
\* is, with the content of that form.
C30_Debounced ==
  [][ app.mounted =>
        /\ Cardinality(app.timers) <= 1 /\ Cardinality(app'.timers) <= 1
        /\ (app'.inputs # app.inputs \/ inputType' # inputType
               \/ isVerifiedUser' # isVerifiedUser)
             => app'.timers = {NextTimer}
        /\ IssuesRequest =>
             /\ app.timers = {PendingTimer(inputType, app.inputs, isVerifiedUser)}
             /\ app'.timers = NoTimer
             /\ app'.inflight \ app.inflight = {[id |-> app'.requests, data |-> FormContent]}
    ]_vars

\* After a change of the form the new timer fired and issued the second
\* request, for the content of the form as it is.
C30_Witness ==
  /\ app.mounted /\ app.timers = NoTimer
  /\ app.requests = 2
  /\ \E r \in app.inflight : r.id = 2 /\ r.data = FormContent

=============================================================================
